---- MODULE Spec2Model ----
(***************************************************************************)
(* The customer-segmentation flow of src/segment.py as a state machine.    *)
(*                                                                         *)
(* segment(config) declares nine Prefect tasks inside one Flow block and   *)
(* calls flow.run(), flow.register() and log_data().  One behaviour of the *)
(* model is a sequence of such calls (runs) that share the directory       *)
(* data/final/ (the Artifact Store).  Data frames are represented by their *)
(* shape (row count, ordered column names, kind of index) and the labels   *)
(* they carry; a cluster model by its algorithm, its k and the rows it was *)
(* fitted on.                                                              *)
(***************************************************************************)
EXTENDS Integers, Sequences, FiniteSets, TLC

\* ------------------------------------------------------------------ bounds
MaxRows == 3        \* datasets have MaxRows-1 or MaxRows rows
MaxComp == 3        \* n_components and len(columns) are MaxComp-1 or MaxComp
MaxElbow == 3       \* the elbow value found is None, MaxElbow-1 or MaxElbow
MaxSeed == 2        \* the random state a fit draws is MaxSeed-1 or MaxSeed

\* ------------------------------------------------------------- task graph
Tasks ==
    { "reduce_dimension", "get_3d_projection", "create_3d_plot",
      "get_best_k_cluster", "get_clusters_model", "save_model", "predict",
      "insert_clusters_to_df", "plot_clusters" }

\* The wiring with predict(model, pca_df) not taking the fitted model.
UpstreamPredictUnwired(n) ==
    CASE n = "reduce_dimension"      -> {}
      [] n = "get_3d_projection"     -> {"reduce_dimension"}
      [] n = "create_3d_plot"        -> {"get_3d_projection"}
      [] n = "get_best_k_cluster"    -> {"reduce_dimension"}
      [] n = "get_clusters_model"    -> {"reduce_dimension", "get_best_k_cluster"}
      [] n = "save_model"            -> {"get_clusters_model"}
      [] n = "predict"               -> {"reduce_dimension"}
      [] n = "insert_clusters_to_df" -> {"predict"}
      [] n = "plot_clusters"         -> {"reduce_dimension", "predict",
                                         "get_3d_projection"}

\* The wiring with plot_clusters taking the reduced data alone.
UpstreamPlotEarly(n) ==
    CASE n = "reduce_dimension"      -> {}
      [] n = "get_3d_projection"     -> {"reduce_dimension"}
      [] n = "create_3d_plot"        -> {"get_3d_projection"}
      [] n = "get_best_k_cluster"    -> {"reduce_dimension"}
      [] n = "get_clusters_model"    -> {"reduce_dimension", "get_best_k_cluster"}
      [] n = "save_model"            -> {"get_clusters_model"}
      [] n = "predict"               -> {"get_clusters_model", "reduce_dimension"}
      [] n = "insert_clusters_to_df" -> {"predict"}
      [] n = "plot_clusters"         -> {"reduce_dimension"}

\* The edges the Flow block declares: the task results each call takes.
Upstream(n) ==
    CASE n = "reduce_dimension"      -> {}
      [] n = "get_3d_projection"     -> {"reduce_dimension"}
      [] n = "create_3d_plot"        -> {"get_3d_projection"}
      [] n = "get_best_k_cluster"    -> {"reduce_dimension"}
      [] n = "get_clusters_model"    -> {"reduce_dimension", "get_best_k_cluster"}
      [] n = "save_model"            -> {"get_clusters_model"}
      [] n = "predict"               -> {"get_clusters_model", "reduce_dimension"}
      [] n = "insert_clusters_to_df" -> {"predict"}
      [] n = "plot_clusters"         -> {"reduce_dimension", "predict",
                                         "get_3d_projection"}

\* Every task n depends on, directly or through other tasks.
RECURSIVE Ancestors(_)
Ancestors(n) == Upstream(n) \cup UNION {Ancestors(u) : u \in Upstream(n)}

\* insert_clusters_to_df declared with @task instead.
ArtifactTasksReduceOnly == {"reduce_dimension"}

\* The tasks declared with @artifact_task(result=TASK_OUTPUT).
ArtifactTasks == {"reduce_dimension", "insert_clusters_to_df"}

\* The template written to disk as it stands, never formatted.
LocationUnformatted(task, args) == "task_name"

\* OUTPUT_FILE = "{task_name}.csv": the store location of a task's result is
\* determined by the task name and by nothing else (args is not used).
Location(task, args) == task

\* The file names that can appear under OUTPUT_DIR.
Locations == Tasks \cup {"task_name"}

\* ----------------------------------------------------------------- values
NoValue == [kind |-> "none"]
PyNone  == [kind |-> "None"]
Absent  == [kind |-> "absent"]
NoLabels == [kind |-> "nolabels"]
Error(e, why) == [kind |-> "error", err |-> e, why |-> why]

ColNames == <<"col1", "col2", "col3", "col4", "col5">>
Range(s) == {s[i] : i \in 1..Len(s)}
Min(a, b) == IF a < b THEN a ELSE b

\* The raw data read by pd.read_csv(..., index_col=0): the first CSV column
\* becomes the index, three numeric columns remain.  The file has no
\* mandated schema: one of its columns may already be named "clusters".
\* A frame records its row count, the source rows in the order it holds
\* them, its column names, and what its "clusters" column holds.
RawColumns == <<"f1", "f2", "f3">>
LabelledColumns == <<"f1", "f2", "clusters">>
SourceLabels == [kind |-> "source"]
Rows == (MaxRows - 1)..MaxRows
ReadCsv(rows, cols) ==
    [kind |-> "df", rows |-> rows, order |-> [i \in 1..rows |-> i],
     cols |-> cols, index |-> "id",
     clusters |-> IF "clusters" \in Range(cols) THEN SourceLabels ELSE NoLabels]

\* The names eval() can resolve in the module's globals (the imports of
\* lines 11-12), and those among them that are clustering estimators.
ModuleNames == {"AgglomerativeClustering", "KMeans", "SpectralClustering", "PCA"}
Clusterers  == {"AgglomerativeClustering", "KMeans", "SpectralClustering"}
Algorithms  == ModuleNames \cup {"DBSCAN"}
\* Of the estimators, only KMeans has a predict method.
HasPredict(alg) == alg = "KMeans"

\* The estimators are built with n_clusters alone: random_state stays None,
\* so KMeans and SpectralClustering initialise from the process's random
\* state; AgglomerativeClustering uses no random state.
Randomized(alg) == alg \in {"KMeans", "SpectralClustering"}
Seeds == (MaxSeed - 1)..MaxSeed

Configs ==
    { c \in [rows : Rows,
             raw : {RawColumns, LabelledColumns},
             n_components : (MaxComp - 1)..MaxComp,
             columns : {SubSeq(ColNames, 1, m) : m \in (MaxComp - 1)..MaxComp},
             algorithm : Algorithms] :
        c.raw = RawColumns \/ (c.rows = MaxRows /\ c.algorithm = "KMeans") }

\* elbow.elbow_value_: None when no knee is found, else a k that was fitted.
KNone == [kind |-> "k", none |-> TRUE, k |-> 0]
KInt(k) == [kind |-> "k", none |-> FALSE, k |-> k]
\* No n_clusters argument is passed: the estimator's own default applies.
KDefault == [kind |-> "default", none |-> FALSE, k |-> 0]
ElbowValues(rows) ==
    {KNone} \cup {KInt(k) : k \in {j \in (MaxElbow - 1)..MaxElbow : j <= rows}}

\* PandasSerializer("csv", serialize_kwargs={"index": False}): the index is
\* not written; reading the file back gives a frame with a default index.
Serialize(df) ==
    [kind |-> "csv", rows |-> df.rows, order |-> df.order, cols |-> df.cols,
     clusters |-> df.clusters]
Deserialize(p) ==
    [kind |-> "df", rows |-> p.rows, order |-> p.order, cols |-> p.cols,
     index |-> "range", clusters |-> p.clusters]

VARIABLES
    cfg,         \* the configuration of the current run
    store,       \* data/final/: location -> serialized payload or Absent
    st,          \* task -> state of its task run
    out,         \* task -> the object its task run returned
    err,         \* task -> the exception its function raised
    started,     \* task -> number of times the runner entered the task
    calls,       \* constructor calls made through eval() in this run
    writes,      \* task -> the store locations it wrote in this run, in order
    pc,          \* position in segment(): run, register, log, done
    flowState,   \* the state flow.run() returned
    startStore,  \* the store when the run started
    prev         \* what is remembered of the previous run: the state it
                 \* ended in, whether this run's configuration equals its
                 \* configuration, whether n_components differs, the artifact tasks that
                 \* computed and stored a result, whether reduce_dimension
                 \* completed, the frame insert_clusters_to_df returned and
                 \* the k and partition of the KMeans model
                 \* get_clusters_model returned

vars == <<cfg, store, st, out, err, started, calls, writes, pc, flowState, startStore,
          prev>>

Finished(s) == s \in {"Success", "Cached", "Failed", "TriggerFailed"}
Successful(s) == s \in {"Success", "Cached"}
Entered(s) == s \in {"Running", "Success", "Cached", "Failed"}

\* --------------------------------------------------------- task functions
\* The frame built without the check of the name list against the
\* projected columns.
reduce_dimension_unchecked(df, n_components, columns) ==
    IF n_components > Min(df.rows, Len(df.cols))
    THEN Error("ValueError", "n_components")
    ELSE [kind |-> "df", rows |-> df.rows, order |-> df.order, cols |-> columns,
          index |-> "range", clusters |-> NoLabels]

\* PCA(n_components).fit_transform(df) needs n_components <= min(rows,
\* columns) and gives one projected row per source row, in source order;
\* pd.DataFrame(..., columns=columns) needs one name per projected column.
reduce_dimension(df, n_components, columns) ==
    IF n_components > Min(df.rows, Len(df.cols))
    THEN Error("ValueError", "n_components")
    ELSE IF Len(columns) # n_components
    THEN Error("ValueError", "shape")
    ELSE [kind |-> "df", rows |-> df.rows, order |-> df.order, cols |-> columns,
          index |-> "range", clusters |-> NoLabels]

get_3d_projection(pca_df) ==
    IF {"col1", "col2", "col3"} \subseteq Range(pca_df.cols)
    THEN [kind |-> "projection", rows |-> pca_df.rows]
    ELSE Error("KeyError", "col3")

create_3d_plot(projection) == PyNone

\* eval(algorithm)() then KElbowVisualizer(model).fit(pca_df); elbow is the
\* value the knee detection ends with.
get_best_k_cluster(pca_df, algorithm, elbow) ==
    IF algorithm \notin ModuleNames THEN Error("NameError", algorithm)
    ELSE IF algorithm \notin Clusterers THEN Error("YellowbrickTypeError", algorithm)
    ELSE elbow

\* The constructor calls get_best_k_cluster makes.
SelectorCalls(algorithm) ==
    IF algorithm \in ModuleNames
    THEN {[fn |-> algorithm, by |-> "get_best_k_cluster", n_clusters |-> KDefault]}
    ELSE {}

\* eval(algorithm)(n_clusters=k).fit(pca_df).  rng is the random state the
\* fit draws; part names the partition of the rows the fit ends with, which
\* for a randomized estimator depends on rng whenever the rows can be split
\* into k groups in more than one way (k < rows).
get_clusters_model(pca_df, algorithm, k, rng) ==
    IF algorithm \notin ModuleNames THEN Error("NameError", algorithm)
    ELSE IF algorithm \notin Clusterers THEN Error("TypeError", algorithm)
    ELSE IF k.none THEN Error("ValueError", "n_clusters=None")
    ELSE IF k.k > pca_df.rows THEN Error("ValueError", "n_clusters>n_samples")
    ELSE [kind |-> "model", alg |-> algorithm, k |-> k.k, rows |-> pca_df.rows,
          fitted |-> [rows |-> pca_df.rows, cols |-> pca_df.cols],
          part |-> IF Randomized(algorithm) /\ k.k < pca_df.rows THEN rng ELSE 0]

FitCalls(algorithm, k) ==
    IF algorithm \in ModuleNames
    THEN {[fn |-> algorithm, by |-> "get_clusters_model", n_clusters |-> k]}
    ELSE {}

save_model(model) == PyNone

\* model.predict(pca_df): each row gets the label in 0..k-1 of its nearest
\* center.  The rows of the model's datasets are pairwise distinct points
\* and k <= rows, so on the data the model was fitted on each of the k
\* centers keeps a row: distinct is the number of labels in use.
predict(model, pca_df) ==
    IF HasPredict(model.alg)
    THEN [kind |-> "labels", rows |-> pca_df.rows, k |-> model.k,
          distinct |-> model.k]
    ELSE Error("AttributeError", "predict")

\* The labels returned as a frame of their own, the source columns lost.
insert_clusters_only(df, clusters) ==
    IF clusters.rows # df.rows THEN Error("ValueError", "length")
    ELSE [df EXCEPT !.cols = <<"clusters">>, !.clusters = clusters]

\* df.assign(clusters=clusters): a new frame; a column already named
\* "clusters" is replaced, otherwise the column is appended.
insert_clusters_to_df(df, clusters) ==
    IF clusters.rows # df.rows THEN Error("ValueError", "length")
    ELSE [df EXCEPT !.cols = IF "clusters" \in Range(@) THEN @
                             ELSE Append(@, "clusters"),
                    !.clusters = clusters]

\* pca_df["clusters"] = preds: the frame passed in is changed in place.
AssignClusters(pca_df, preds) ==
    [pca_df EXCEPT !.cols = IF "clusters" \in Range(@) THEN @
                            ELSE Append(@, "clusters"),
                   !.clusters = preds]

plot_clusters(pca_df, preds, projections) == PyNone

\* The value task n's function returns (or the error it raises) on the
\* current upstream results.
Compute(n, elbow, rng) ==
    CASE n = "reduce_dimension" ->
            reduce_dimension(ReadCsv(cfg.rows, cfg.raw), cfg.n_components, cfg.columns)
      [] n = "get_3d_projection" -> get_3d_projection(out["reduce_dimension"])
      [] n = "create_3d_plot" -> create_3d_plot(out["get_3d_projection"])
      [] n = "get_best_k_cluster" ->
            get_best_k_cluster(out["reduce_dimension"], cfg.algorithm, elbow)
      [] n = "get_clusters_model" ->
            get_clusters_model(out["reduce_dimension"], cfg.algorithm,
                               out["get_best_k_cluster"], rng)
      [] n = "save_model" -> save_model(out["get_clusters_model"])
      [] n = "predict" -> predict(out["get_clusters_model"], out["reduce_dimension"])
      [] n = "insert_clusters_to_df" ->
            insert_clusters_to_df(ReadCsv(cfg.rows, cfg.raw), out["predict"])
      [] n = "plot_clusters" ->
            plot_clusters(out["reduce_dimension"], out["predict"],
                          out["get_3d_projection"])

\* The constructor calls task n makes through eval().
CallsOf(n) ==
    CASE n = "get_best_k_cluster" -> SelectorCalls(cfg.algorithm)
      [] n = "get_clusters_model" ->
            FitCalls(cfg.algorithm, out["get_best_k_cluster"])
      [] OTHER -> {}

\* ------------------------------------------------------------ flow runner
\* The default trigger, all_successful.
TriggerAlways(n) == TRUE

TriggerOK(n) == \A u \in Upstream(n) : Successful(st[u])

NoneRunning == \A m \in Tasks : st[m] # "Running"

\* A runner that does not wait for the upstream task runs.
ReadyNoWait(n) ==
    /\ pc = "run"
    /\ st[n] = "Pending"
    /\ NoneRunning

\* The flow runner takes the tasks one at a time in a topological order: a
\* task is entered when no task is running and its upstream runs are over.
Ready(n) ==
    /\ pc = "run"
    /\ st[n] = "Pending"
    /\ NoneRunning
    /\ \A u \in Upstream(n) : Finished(st[u])

\* Elbow values the knee detection can end with on the reduced data.
ElbowChoices(n) ==
    IF n = "get_best_k_cluster" /\ out["reduce_dimension"].kind = "df"
    THEN ElbowValues(out["reduce_dimension"].rows)
    ELSE {KNone}

\* The random states a fit by task n can draw.
SeedChoices(n) ==
    IF n = "get_clusters_model" /\ Randomized(cfg.algorithm) THEN Seeds ELSE {0}

Cached(n) == n \in ArtifactTasks /\ store[Location(n, cfg)] # Absent

\* An upstream task did not succeed: the task run ends TriggerFailed and the
\* task's function is not called.
TriggerFail(n) ==
    /\ Ready(n)
    /\ ~TriggerOK(n)
    /\ st' = [st EXCEPT ![n] = "TriggerFailed"]
    /\ UNCHANGED <<cfg, writes, store, out, err, started, calls, pc, flowState, startStore, prev>>

\* The artifact task finds a stored result at its location: it returns the
\* stored result and its function is not called.
CacheHit(n) ==
    /\ Ready(n)
    /\ TriggerOK(n)
    /\ Cached(n)
    /\ st' = [st EXCEPT ![n] = "Cached"]
    /\ out' = [out EXCEPT ![n] = Deserialize(store[Location(n, cfg)])]
    /\ started' = [started EXCEPT ![n] = @ + 1]
    /\ UNCHANGED <<cfg, writes, store, err, calls, pc, flowState, startStore, prev>>

StartTask(n) ==
    /\ Ready(n)
    /\ TriggerOK(n)
    /\ ~Cached(n)
    /\ st' = [st EXCEPT ![n] = "Running"]
    /\ started' = [started EXCEPT ![n] = @ + 1]
    /\ UNCHANGED <<cfg, writes, store, out, err, calls, pc, flowState, startStore, prev>>

FinishTask(n) ==
    /\ pc = "run"
    /\ st[n] = "Running"
    /\ \E elbow \in ElbowChoices(n), rng \in SeedChoices(n) :
        LET r == Compute(n, elbow, rng) IN
        /\ calls' = calls \cup CallsOf(n)
        /\ IF r.kind = "error"
           THEN /\ st' = [st EXCEPT ![n] = "Failed"]
                /\ err' = [err EXCEPT ![n] = r]
                /\ UNCHANGED <<out, store, writes>>
           ELSE /\ st' = [st EXCEPT ![n] = "Success"]
                /\ out' = [out EXCEPT
                     ![n] = r,
                     !["reduce_dimension"] =
                        IF n = "plot_clusters"
                        THEN AssignClusters(@, out["predict"])
                        ELSE IF n = "reduce_dimension" THEN r ELSE @]
                /\ store' = IF n \in ArtifactTasks
                            THEN [store EXCEPT ![Location(n, cfg)] = Serialize(r)]
                            ELSE store
                /\ writes' = IF n \in ArtifactTasks
                             THEN [writes EXCEPT ![n] = Append(@, Location(n, cfg))]
                             ELSE writes
                /\ UNCHANGED err
    /\ UNCHANGED <<cfg, started, pc, flowState, startStore, prev>>

\* flow.run() returns the flow's final state; it does not raise.
FlowRunReturn ==
    /\ pc = "run"
    /\ \A n \in Tasks : Finished(st[n])
    /\ flowState' = IF \A n \in Tasks : Successful(st[n]) THEN "Success" ELSE "Failed"
    /\ pc' = "register"
    /\ UNCHANGED <<cfg, writes, store, st, out, err, started, calls, startStore, prev>>

Register ==
    /\ pc = "register"
    /\ pc' = "log"
    /\ UNCHANGED <<cfg, writes, store, st, out, err, started, calls, flowState, startStore, prev>>

LogData ==
    /\ pc = "log"
    /\ pc' = "done"
    /\ UNCHANGED <<cfg, writes, store, st, out, err, started, calls, flowState, startStore, prev>>

\* segment() is called again, with the same or another configuration; the
\* files under data/final/ are still there.
NewRun(c) ==
    /\ pc = "done"
    /\ cfg' = c
    /\ st' = [n \in Tasks |-> "Pending"]
    /\ out' = [n \in Tasks |-> NoValue]
    /\ err' = [n \in Tasks |-> NoValue]
    /\ started' = [n \in Tasks |-> 0]
    /\ calls' = {}
    /\ writes' = [n \in Tasks |-> <<>>]
    /\ pc' = "run"
    /\ flowState' = "none"
    /\ startStore' = store
    /\ prev' = [state |-> flowState,
                same |-> (c = cfg),
                changed_n |-> (c.n_components # cfg.n_components),
                wrote |-> {n \in Tasks : n \in ArtifactTasks /\ st[n] = "Success"},
                reduced |-> Successful(st["reduce_dimension"]),
                data |-> out["insert_clusters_to_df"],
                fit |-> IF /\ out["get_clusters_model"].kind = "model"
                           /\ out["get_clusters_model"].alg = "KMeans"
                        THEN [kind |-> "fit",
                              k |-> out["get_clusters_model"].k,
                              part |-> out["get_clusters_model"].part]
                        ELSE NoValue]
    /\ UNCHANGED store

Init ==
    /\ cfg \in Configs
    /\ store = [l \in Locations |-> Absent]
    /\ st = [n \in Tasks |-> "Pending"]
    /\ out = [n \in Tasks |-> NoValue]
    /\ err = [n \in Tasks |-> NoValue]
    /\ started = [n \in Tasks |-> 0]
    /\ calls = {}
    /\ writes = [n \in Tasks |-> <<>>]
    /\ pc = "run"
    /\ flowState = "none"
    /\ startStore = [l \in Locations |-> Absent]
    /\ prev = [state |-> "none", same |-> FALSE, changed_n |-> FALSE,
               wrote |-> {}, reduced |-> FALSE, data |-> NoValue, fit |-> NoValue]

Next ==
    \/ \E n \in Tasks : TriggerFail(n)
    \/ \E n \in Tasks : CacheHit(n)
    \/ \E n \in Tasks : StartTask(n)
    \/ \E n \in Tasks : FinishTask(n)
    \/ FlowRunReturn
    \/ Register
    \/ LogData
    \/ \E c \in Configs : NewRun(c)

Spec == Init /\ [][Next]_vars

\* ------------------------------------------------------------------ claims
RunOver == pc \in {"register", "log", "done"}
SomeFailed == \E n \in Tasks : st[n] = "Failed"

OneAtATime == Cardinality({n \in Tasks : st[n] = "Running"}) <= 1
AfterUpstream == \A n \in Tasks : Entered(st[n]) => \A u \in Upstream(n) : Finished(st[u])

\* C1 as stated: in every run every declared node executes exactly once, one
\* at a time, and none starts before the nodes it takes its inputs from
\* have completed.
C1_AsClaimed ==
    /\ OneAtATime
    /\ AfterUpstream
    /\ \A n \in Tasks : started[n] <= 1
    /\ RunOver => \A n \in Tasks : started[n] = 1

\* C1 amended: in every run every declared node executes at most once, one
\* at a time, and none starts before the nodes it takes its inputs from
\* have completed; in a run in which no node fails every declared node
\* executes exactly once.
C1_Thm ==
    /\ OneAtATime
    /\ AfterUpstream
    /\ \A n \in Tasks : started[n] <= 1
    /\ (RunOver /\ ~SomeFailed) => \A n \in Tasks : started[n] = 1

\* A run that is over, in which all nine nodes executed and none failed.
C1_Witness ==
    /\ pc = "register"
    /\ flowState = "Success"
    /\ \A n \in Tasks : started[n] = 1 /\ Successful(st[n])

Before(a, b) == Entered(st[b]) => Successful(st[a])

\* C8 as stated: the stages occur in the order reduce_dimension,
\* get_best_k_cluster, get_clusters_model, predict, insert_clusters_to_df,
\* save_model: the model is persisted only after prediction and label
\* assignment have completed.
C8_AsClaimed ==
    /\ Before("reduce_dimension", "get_best_k_cluster")
    /\ Before("get_best_k_cluster", "get_clusters_model")
    /\ Before("get_clusters_model", "predict")
    /\ Before("predict", "insert_clusters_to_df")
    /\ Before("insert_clusters_to_df", "save_model")

\* C8 amended: the stages occur in the order reduce_dimension,
\* get_best_k_cluster, get_clusters_model, predict, insert_clusters_to_df;
\* the model is persisted only after the fit has completed, before or after
\* prediction and label assignment.
C8_Thm ==
    /\ Before("reduce_dimension", "get_best_k_cluster")
    /\ Before("get_best_k_cluster", "get_clusters_model")
    /\ Before("get_clusters_model", "predict")
    /\ Before("predict", "insert_clusters_to_df")
    /\ Before("get_clusters_model", "save_model")

\* The model has been persisted while prediction has not started, in a run
\* that then goes on to label the data.
C8_Witness ==
    /\ st["save_model"] = "Success"
    /\ st["predict"] = "Pending"
    /\ HasPredict(cfg.algorithm)
    /\ Successful(st["get_clusters_model"])

Unsupported == cfg.algorithm \notin Clusterers

\* C5 as stated: for every algorithm identifier outside the closed set of
\* supported clustering variants, the selector and the fit step fail with
\* UnsupportedAlgorithm when they execute, and no such identifier resolves
\* to a constructor that is then called.
C5_AsClaimed ==
    /\ \A c \in calls : c.fn \in Clusterers
    /\ \A n \in {"get_best_k_cluster", "get_clusters_model"} :
          (Unsupported /\ st[n] \in {"Success", "Failed"}) =>
              (st[n] = "Failed" /\ err[n].err = "UnsupportedAlgorithm")

\* C7 as stated: when the elbow detection finds no knee, the selector node
\* fails with NoElbowFound, and the fit node is never executed with a
\* missing (None) k.
C7_AsClaimed ==
    /\ st["get_best_k_cluster"] = "Success" => ~out["get_best_k_cluster"].none
    /\ Entered(st["get_clusters_model"]) => ~out["get_best_k_cluster"].none
    /\ \A c \in calls : ~c.n_clusters.none

\* C10 as stated: for every supported algorithm, with or without a native
\* predict, the predict node applied to the fitted model succeeds and
\* returns one label per row.
C10_AsClaimed ==
    (/\ cfg.algorithm \in Clusterers
     /\ st["get_clusters_model"] = "Success"
     /\ st["predict"] \in {"Success", "Failed"})
    => /\ st["predict"] = "Success"
       /\ out["predict"].kind = "labels"
       /\ out["predict"].rows = out["reduce_dimension"].rows

\* The inputs a stored artifact of task n was computed from, read off the
\* artifact, and the inputs the current run resolves for task n.
ArtifactInputs(n, df) ==
    IF n = "reduce_dimension"
    THEN [rows |-> df.rows, n_components |-> Len(df.cols), columns |-> df.cols,
          clusters |-> NoLabels]
    ELSE [rows |-> df.rows, n_components |-> 0, columns |-> <<>>,
          clusters |-> df.clusters]
ResolvedInputs(n) ==
    IF n = "reduce_dimension"
    THEN [rows |-> cfg.rows, n_components |-> cfg.n_components,
          columns |-> cfg.columns, clusters |-> NoLabels]
    ELSE [rows |-> cfg.rows, n_components |-> 0, columns |-> <<>>,
          clusters |-> out["predict"]]

\* C2 as stated: when two consecutive runs differ in n_components, the
\* second run recomputes the Reducer node and every node downstream of it
\* and uses no artifact stored by the first run for them: a stored artifact
\* is used only under the fingerprint of the inputs it was computed from.
C2_AsClaimed ==
    /\ (prev.state # "none" /\ prev.changed_n) =>
          \A n \in ArtifactTasks : st[n] # "Cached"
    /\ \A n \in ArtifactTasks :
          st[n] = "Cached" =>
              ArtifactInputs(n, Deserialize(store[Location(n, cfg)])) = ResolvedInputs(n)

\* C9 as stated: after a failed run, an artifact stored by an earlier
\* successful node of that run is returned by the next run only when the
\* next run's resolved inputs for the node equal the inputs the artifact
\* was computed from.
C9_AsClaimed ==
    \A n \in ArtifactTasks :
        (prev.state = "Failed" /\ n \in prev.wrote /\ st[n] = "Cached") =>
            ArtifactInputs(n, Deserialize(store[Location(n, cfg)])) = ResolvedInputs(n)

Rerun == prev.state # "none" /\ prev.same

FailedUnsupported == Unsupported /\ st["get_best_k_cluster"] = "Failed"

\* C6 as stated: when a run fails because of an unsupported algorithm
\* identifier, the Artifact Store at the end of the run is identical to
\* the Artifact Store at the start of the run.
C6_AsClaimed == (RunOver /\ FailedUnsupported) => store = startStore

\* C6 amended: when a run fails because of an unsupported algorithm
\* identifier, the Artifact Store at the end of the run differs from the
\* Artifact Store at the start of the run at most in the entry of
\* reduce_dimension, stored under that task's name: no node from the failing
\* selector on writes an entry.
C6_Thm ==
    (RunOver /\ FailedUnsupported) =>
        \A l \in Locations : l # "reduce_dimension" => store[l] = startStore[l]

\* A run that failed at the selector on an unsupported identifier and in
\* which reduce_dimension stored its result.
C6_Witness ==
    /\ RunOver
    /\ FailedUnsupported
    /\ startStore["reduce_dimension"] = Absent
    /\ store["reduce_dimension"] # Absent

\* C11 as stated: fit followed by predict on the data used to fit yields an
\* assignment with one label in [0, k) per row and exactly k distinct
\* labels, where k is the k_best the selector returned.
C11_AsClaimed ==
    (st["get_clusters_model"] = "Success" /\ st["predict"] \in {"Success", "Failed"})
    => /\ st["predict"] = "Success"
       /\ out["predict"].kind = "labels"
       /\ out["predict"].rows = out["get_clusters_model"].fitted.rows
       /\ out["predict"].k = out["get_best_k_cluster"].k
       /\ out["predict"].distinct = out["get_best_k_cluster"].k

\* C12 as stated: two k-means fits on identical input with identical k
\* yield the same partition of the rows.  (Two consecutive runs with the
\* same configuration fit the same reduced data.)
C12_AsClaimed ==
    (/\ Rerun
     /\ prev.fit # NoValue
     /\ st["get_clusters_model"] = "Success"
     /\ out["get_clusters_model"].alg = "KMeans"
     /\ out["get_clusters_model"].k = prev.fit.k)
    => out["get_clusters_model"].part = prev.fit.part

Source == ReadCsv(cfg.rows, cfg.raw)
\* The step in which the call of reduce_dimension returns or raises.
ReduceReturns ==
    /\ st["reduce_dimension"] = "Running"
    /\ st'["reduce_dimension"] \in {"Success", "Failed"}
ReduceShape ==
    /\ st["reduce_dimension"] = "Success"
    /\ out["reduce_dimension"].rows = Source.rows
    /\ out["reduce_dimension"].order = Source.order
    /\ Len(out["reduce_dimension"].cols) = cfg.n_components
ReduceFails ==
    /\ st["reduce_dimension"] = "Failed"
    /\ err["reduce_dimension"].err = "ValueError"
    /\ out["reduce_dimension"] = NoValue

C14_AsClaimed ==
    st["insert_clusters_to_df"] = "Success" =>
        LET r == out["insert_clusters_to_df"] IN
        /\ r.rows = Source.rows
        /\ r.order = Source.order
        /\ Len(r.cols) = Len(Source.cols) + 1
        /\ SubSeq(r.cols, 1, Len(Source.cols)) = Source.cols
        /\ r.clusters = out["predict"]

\* C14 amended: insert_clusters_to_df, when its function runs, returns the
\* original Dataset with row count, row order and index unchanged and the
\* Cluster Assignment in the column clusters; when the Dataset has no
\* column of that name the column is added after the original columns,
\* which are all kept; when it has one, that column is replaced by the
\* Cluster Assignment and no column is added.
C14_Thm ==
    st["insert_clusters_to_df"] = "Success" =>
        LET r == out["insert_clusters_to_df"] IN
        /\ r.rows = Source.rows
        /\ r.order = Source.order
        /\ r.index = Source.index
        /\ r.clusters = out["predict"]
        /\ IF "clusters" \in Range(Source.cols)
           THEN r.cols = Source.cols
           ELSE r.cols = Append(Source.cols, "clusters")

\* insert_clusters_to_df has run on a Dataset without a clusters column
\* and returned it with the one column added.
C14_Witness ==
    /\ st["insert_clusters_to_df"] = "Success"
    /\ "clusters" \notin Range(Source.cols)
    /\ out["insert_clusters_to_df"].cols = Append(Source.cols, "clusters")
    /\ out["insert_clusters_to_df"].clusters.kind = "labels"

\* C15 as stated: in every state of a run after reduce_dimension has
\* completed, the Reduced Dataset has exactly n_components columns and the
\* source Dataset's row count: no node modifies its resolved inputs.
C15_AsClaimed ==
    Successful(st["reduce_dimension"]) =>
        /\ Len(out["reduce_dimension"].cols) = cfg.n_components
        /\ out["reduce_dimension"].rows = cfg.rows

Readers == {"get_3d_projection", "get_best_k_cluster", "get_clusters_model", "predict"}

\* C16: in every execution order the dependencies allow, every node that
\* reads the Reduced Dataset has completed before plot_clusters writes the
\* clusters column into it, so no reader observes the added column.
C16_Thm ==
    /\ Entered(st["plot_clusters"]) => \A r \in Readers : Finished(st[r])
    /\ \A r \in Readers :
          st[r] = "Running" => "clusters" \notin Range(out["reduce_dimension"].cols)

\* plot_clusters has written the clusters column into the Reduced Dataset
\* after all four readers succeeded.
C16_Witness ==
    /\ st["plot_clusters"] = "Success"
    /\ "clusters" \in Range(out["reduce_dimension"].cols)
    /\ \A r \in Readers : st[r] = "Success"

\* C17: within a run only reduce_dimension and insert_clusters_to_df write
\* to the Artifact Store, each at most once, each at the location named by
\* its own task name, so no two nodes write to the same location.
C17_Thm ==
    /\ \A n \in Tasks :
          /\ Len(writes[n]) <= 1
          /\ writes[n] # <<>> =>
                /\ n \in {"reduce_dimension", "insert_clusters_to_df"}
                /\ writes[n][1] = n
    /\ \A n, m \in Tasks :
          n # m => Range(writes[n]) \cap Range(writes[m]) = {}

\* A run in which both artifact nodes wrote their entry.
C17_Witness ==
    /\ RunOver
    /\ writes["reduce_dimension"] = <<"reduce_dimension">>
    /\ writes["insert_clusters_to_df"] = <<"insert_clusters_to_df">>

\* C18 as stated: flow.register and log_data are executed only if
\* insert_clusters_to_df completed successfully in this run; a run in which
\* a node failed never registers the flow or logs the segmented artifact.
C18_AsClaimed ==
    pc \in {"log", "done"} =>
        /\ Successful(st["insert_clusters_to_df"])
        /\ ~SomeFailed

====
